---- MODULE Spec2Model ----
(***************************************************************************)
(* CVS Capacity Manager (src/main.py).                                     *)
(*                                                                         *)
(* Three state machines share this module:                                 *)
(*   Spec        the resize decision engine: the entry points (cli,        *)
(*               pubsub, alert event), the batch loop of resize() and      *)
(*               resizeVolume() for one volume;                            *)
(*   SpecToken   BearerAuth.ImpersonationCreds: get_token / _new_token     *)
(*               against a clock and a signing service that may fail;      *)
(*   SpecClient  BearerAuth.__init__ (credential classification) and the   *)
(*               tier label translations of GCPCVS.                        *)
(*                                                                         *)
(* Sizes.  TLC integers are 32 bit, the program's sizes are byte counts up *)
(* to 100 * 1024^4.  Every size of the model is counted in units of        *)
(* 1/UnitsPerGiB GiB.  The program only ever compares sizes and rounds     *)
(* them to whole GiB, and floor(floor(x) / G) = floor(x / G), so for byte  *)
(* counts that are multiples of the unit the program's results (all whole  *)
(* GiB) are the same numbers in either scale.  Python's true division is   *)
(* modelled by exact rational arithmetic followed by int()'s truncation    *)
(* toward zero.                                                            *)
(***************************************************************************)
EXTENDS Integers, Sequences, FiniteSets, TLC

VARIABLES
    \* ---- resize engine ----
    pc,         \* "idle" | "loop" | "done" | "crashed"
    handler,    \* entry point that started the run
    policy,     \* [duration, margin, outputJSON, dry_mode] of the run
    nVolumes,   \* len(allvolumes) of the batch
    idx,        \* number of volumes of the batch the loop has taken
    volume,     \* the volume resizeVolume was last called with
    res,        \* what that call did (decision, output, PUT, exception)
    nReports,   \* report entries (one line / one JSON entry per volume) printed
    nCalls,     \* resizeVolume calls made in this run
    \* ---- impersonation token provider ----
    tpc,        \* "unbuilt" | "ready" | "failed"
    now,        \* wall clock, seconds
    expiry,     \* self.expiry
    token,      \* self.token: None or the signed JWT [iat, exp]
    call,       \* the get_token() call just made: time, signing calls, outcome
    \* ---- client construction and tier translation ----
    auth,       \* result of BearerAuth(service_account_identifier)
    ident,      \* the identifier it was built from
    tr          \* last tier translation: [dir, label, result, back]

engineVars == <<pc, handler, policy, nVolumes, idx, volume, res, nReports, nCalls>>
tokenVars  == <<tpc, now, expiry, token, call>>
clientVars == <<auth, ident, tr>>
vars == <<pc, handler, policy, nVolumes, idx, volume, res, nReports, nCalls,
          tpc, now, expiry, token, call, auth, ident, tr>>

None == "None"

----------------------------------------------------------------------------
(* Bounds of the model *)

UnitsPerGiB == 4        \* size granularity: units per GiB
MaxVolumes == 2         \* longest list getVolumesByRegion returns
MaxTime == 310          \* the clock stops here

----------------------------------------------------------------------------
(* Sizes *)

GiB == UnitsPerGiB                      \* 1024**3 bytes
TiB == 1024 * GiB                       \* 1024**4 bytes
MaxVolumeSize == 100 * TiB              \* 100*1024**4, the cap of resizeVolume

RECURSIVE GCD(_, _)
GCD(a, b) == IF b = 0 THEN a ELSE GCD(b, a % b)

Abs(a) == IF a < 0 THEN 0 - a ELSE a

\* int(a / b) of Python for b > 0: true division, then truncation toward zero
IntDiv(a, b) == IF a >= 0 THEN a \div b ELSE 0 - ((0 - a) \div b)

\* floor(a * b / c) for a >= 0, b > 0, c > 0 without an intermediate above 2^31
MulDivFloor(a, b, c) == (a \div c) * b + ((a % c) * b) \div c

----------------------------------------------------------------------------
(* calculateNewCapacity *)

KnownTiers == {"basic", "standard", "extreme", "standard-sw"}

\* the qos table, KiB/s per GiB
qos(serviceLevel) ==
    CASE serviceLevel = "basic" -> 16
      [] serviceLevel = "standard" -> 64
      [] serviceLevel = "extreme" -> 128
      [] serviceLevel = "standard-sw" -> 128

speedOf(serviceLevel) ==
    IF serviceLevel \in KnownTiers THEN qos(serviceLevel) ELSE qos("extreme")

\* The denominator of the formula,
\*     duration*60*speed/1024**2 * (1 + margin/100) - 1
\*   = (duration*60*speed*(100+margin) - 100*1024**2) / (100*1024**2),
\* as the fraction DenNum / DenDen with both terms divided by 320 (speed is
\* a multiple of 16).  DenNum is never 0: 100*1024**2 has no factor 3.
DenDen == (100 * 1024 * 1024) \div 320
DenNum(speed, duration, margin) ==
    duration * 3 * (speed \div 16) * (100 + margin) - DenDen

\* newSize = int(-size / denominator): sign and magnitude (in units, floored)
\* of the value.  neg: the byte value is strictly negative.
rawNewSize(size, serviceLevel, duration, margin) ==
    LET d == DenNum(speedOf(serviceLevel), duration, margin)
        g == GCD(DenDen, Abs(d))
    IN  [neg |-> d > 0 /\ size > 0,
         mag |-> MulDivFloor(size, DenDen \div g, Abs(d) \div g)]

\* int(newSize / 1024**3 + 1) * 1024**3 for newSize >= 0
roundUpGiB(newSize) == (newSize \div GiB + 1) * GiB

\* the same expression for a negative newSize of magnitude mag:
\* int() truncates 1 - mag/GiB toward zero
roundUpGiBNeg(mag) == IF mag < GiB THEN 0 ELSE (1 - mag \div GiB) * GiB

calculateNewCapacity(size, serviceLevel, duration, margin) ==
    LET n == rawNewSize(size, serviceLevel, duration, margin)
    IN  IF n.neg THEN roundUpGiBNeg(n.mag) ELSE roundUpGiB(n.mag)

----------------------------------------------------------------------------
(* Tier label translation, GCPCVS *)

translateServiceLevelAPI2UI(serviceLevel) ==
    CASE serviceLevel = "basic" -> "standard"
      [] serviceLevel = "standard" -> "premium"
      [] serviceLevel = "extreme" -> "extreme"
      [] serviceLevel = "standard-sw" -> "standard-sw"
      [] OTHER -> None

\* the UI table with "standard" left as it is
translateServiceLevelUI2API_sameWord(serviceLevel) ==
    CASE serviceLevel = "standard" -> "standard"
      [] serviceLevel = "premium" -> "standard"
      [] serviceLevel = "extreme" -> "extreme"
      [] serviceLevel = "standard-sw" -> "standard-sw"
      [] OTHER -> None

translateServiceLevelUI2API(serviceLevel) ==
    CASE serviceLevel = "standard" -> "basic"
      [] serviceLevel = "premium" -> "standard"
      [] serviceLevel = "extreme" -> "extreme"
      [] serviceLevel = "standard-sw" -> "standard-sw"
      [] OTHER -> None

----------------------------------------------------------------------------
(* resizeVolume *)

\* newSize of the static margin branch: int(used * 100 / (100 - margin))
staticNewSize(used, margin) == IntDiv(used * 100, 100 - margin)

\* tier used for sizing and reporting
effectiveTier(v) ==
    IF v.storageClass = "hardware" THEN v.serviceLevel ELSE "standard-sw"

\* the size computed by "Calculate new size"
computedSize(v, duration, margin) ==
    IF duration = 0
    THEN roundUpGiB(staticNewSize(v.used, margin))
    ELSE calculateNewCapacity(v.used, effectiveTier(v), duration, margin)

notice(outputJSON, severity, message) ==
    [severity |-> IF outputJSON THEN severity ELSE None, message |-> message]

NoResult ==
    [ret |-> None, raised |-> None, decision |-> None, computed |-> <<>>,
     notices |-> <<>>, entry |-> <<>>, puts |-> <<>>, quotaAfter |-> 0]

\* cvs.resizeVolumeByVolumeID / _modifyVolumeByVolumeID: GET, then PUT of the
\* volume with quotaInBytes replaced; either request may answer non-2xx and
\* raise_for_status raises.  io is the service's behaviour.
modifyVolume(r, v, newSize, io) ==
    CASE io = "get_fails" ->
            [r EXCEPT !.ret = None, !.raised = "HTTPError",
                      !.quotaAfter = v.quota]
      [] io = "put_fails" ->
            [r EXCEPT !.ret = None, !.raised = "HTTPError",
                      !.puts = <<newSize>>, !.quotaAfter = v.quota]
      [] OTHER ->
            [r EXCEPT !.ret = "True", !.puts = <<newSize>>,
                      !.quotaAfter = newSize]

\* "skip volumes which are not available"
isAvailable(v) == v.lifeCycleState = "available"

\* the replication test with the inReplication flag inverted
isActiveSecondary_inverted(v) == v.isDataProtection = TRUE /\ v.inReplication = FALSE

\* "active CRR Secondary volumes are resized by resizing the primary volume"
isActiveSecondary(v) == v.isDataProtection = TRUE /\ v.inReplication = TRUE

\* "Do we need to resize the volume?"
needsResize(newSize, quota) == newSize > quota

\* "max volume size is 100TiB. cap at 100TiB"
exceedsCap(newSize) == newSize > MaxVolumeSize

\* the cap left out
capSize_unclamped(newSize) == newSize

capSize(newSize) == IF exceedsCap(newSize) THEN MaxVolumeSize ELSE newSize

\* the write decided without looking at dry_mode
callsAPI_ignoringDryMode(enlarge, dry_mode) == enlarge = TRUE

\* "Volume needs resizing. Call API"
callsAPI(enlarge, dry_mode) == enlarge = TRUE /\ dry_mode = FALSE

\* Everything one call of resizeVolume does.
resizeVolume(v, duration, margin, outputJSON, dry_mode, io) ==
    LET skip(msg) ==
            [NoResult EXCEPT !.ret = "False", !.decision = "Skipped",
                             !.notices = <<notice(outputJSON, "INFO", msg)>>,
                             !.quotaAfter = v.quota]
        serviceLevel == effectiveTier(v)
        computed == computedSize(v, duration, margin)
        enlarge == needsResize(computed, v.quota)
        capped == enlarge /\ exceedsCap(computed)
        newSize == IF enlarge THEN capSize(computed) ELSE v.quota
        capNotice == IF capped
                     THEN <<notice(outputJSON, "WARNING", "Resizing capped to 100 TiB")>>
                     ELSE <<>>
        uiLevel == translateServiceLevelAPI2UI(serviceLevel)
        sized == [NoResult EXCEPT !.computed = <<computed>>,
                                  !.decision = IF enlarge THEN "ResizeProposed"
                                                          ELSE "Unchanged",
                                  !.notices = capNotice,
                                  !.quotaAfter = v.quota]
        reported == [sized EXCEPT !.ret = "False",
                        !.entry = <<[serviceLevel |-> uiLevel, oldSize |-> v.used,
                                     quota |-> v.quota, enlarge |-> enlarge,
                                     newSize |-> newSize]>>]
    IN  IF ~isAvailable(v)
        THEN skip("Volume is not available. Skipping ...")
        ELSE IF isActiveSecondary(v)
        THEN skip("Secondary volume in active replication. Skipping ...")
        ELSE IF duration = 0 /\ margin = 100
        THEN \* used * 100 / (100 - margin) divides by zero
             [NoResult EXCEPT !.raised = "ZeroDivisionError", !.quotaAfter = v.quota]
        ELSE IF ~outputJSON /\ uiLevel = None
        THEN \* f'{None:12}' of the table line
             [sized EXCEPT !.raised = "TypeError"]
        ELSE IF callsAPI(enlarge, dry_mode)
        THEN modifyVolume(reported, v, newSize, io)
        ELSE reported

----------------------------------------------------------------------------
(* Inputs of the resize engine *)

Durations == {0, 60, 1440}          \* CVS_CAPACITY_INTERVAL, minutes
Margins == {20, 100}                \* CVS_CAPACITY_MARGIN, percent (not validated)
IOOutcomes == {"ok", "get_fails", "put_fails"}

\* <<quotaInBytes, usedBytes>> of the volumes the service returns: the quota
\* is between 1 GiB and the platform maximum of 100 TiB, the used bytes do not
\* exceed it.
VolumeSizes ==
    {<<GiB, 0>>, <<GiB, 1>>, <<100 * GiB, 80 * GiB>>, <<101 * GiB, 80 * GiB>>,
     <<95 * TiB, 90 * TiB>>, <<MaxVolumeSize, 90 * TiB>>}

\* <<storageClass, serviceLevel>>: the software offering reports "basic"
VolumeTiers ==
    {<<"hardware", "basic">>, <<"hardware", "standard">>, <<"hardware", "extreme">>,
     <<"hardware", "flex">>, <<"software", "basic">>}

Volumes ==
    {[quota |-> s[1], used |-> s[2], lifeCycleState |-> l,
      isDataProtection |-> dp, inReplication |-> ir,
      storageClass |-> t[1], serviceLevel |-> t[2]] :
        s \in VolumeSizes, t \in VolumeTiers, l \in {"available", "creating"},
        dp \in BOOLEAN, ir \in BOOLEAN}

NoVolume ==
    [quota |-> 0, used |-> 0, lifeCycleState |-> None,
     isDataProtection |-> FALSE, inReplication |-> FALSE,
     storageClass |-> None, serviceLevel |-> None]

NoPolicy == [duration |-> 0, margin |-> 0, outputJSON |-> FALSE, dry_mode |-> FALSE]

Policy(duration, margin, outputJSON, dry_mode) ==
    [duration |-> duration, margin |-> margin,
     outputJSON |-> outputJSON, dry_mode |-> dry_mode]

EngineInit ==
    /\ pc = "idle"
    /\ handler = None
    /\ policy = NoPolicy
    /\ nVolumes = 0
    /\ idx = 0
    /\ volume = NoVolume
    /\ res = NoResult
    /\ nReports = 0
    /\ nCalls = 0

NoCall == [at |-> 0, signs |-> 0, outcome |-> None, returned |-> <<>>,
           expiryBefore |-> 0]

TokenIdle ==
    /\ tpc = "unbuilt"
    /\ now = 0
    /\ expiry = 0
    /\ token = <<>>
    /\ call = NoCall

NoIdent ==
    [principal |-> FALSE, ascii |-> FALSE, alphabet |-> FALSE, padded |-> FALSE,
     decoded |-> None, isFile |-> FALSE, fileContent |-> None]

NoAuth == [credentials |-> None, raised |-> None, projectID |-> None, source |-> None]

NoTr == [dir |-> None, label |-> None, result |-> None, back |-> None]

ClientIdle ==
    /\ auth = NoAuth
    /\ ident = NoIdent
    /\ tr = NoTr

\* what a call prints for its volume: the skip line, or the table line / the
\* structured entry
reportLines(r) ==
    (IF r.decision = "Skipped" THEN Len(r.notices) ELSE 0) + Len(r.entry)

\* The answers of the volume service that a call can meet: a call that
\* sends no request meets none, one outcome stands for all.
IOFor(v, duration, margin, outputJSON, dry_mode) ==
    IF resizeVolume(v, duration, margin, outputJSON, dry_mode, "get_fails").raised
           = "HTTPError"
    THEN IOOutcomes ELSE {"ok"}

----------------------------------------------------------------------------
(* resize: the batch *)

\* resize() up to the loop: build the client, list the volumes.  The list is
\* fixed once fetched; the model keeps its length and draws each element
\* when the loop reaches it.  ok = FALSE: GCPCVS() or getVolumesByRegion raised.
resize(h, duration, margin, outputJSON, dry_mode, n, ok) ==
    /\ pc = "idle"
    /\ handler' = h
    /\ policy' = Policy(duration, margin, outputJSON, dry_mode)
    /\ pc' = IF ok THEN "loop" ELSE "crashed"
    /\ nVolumes' = IF ok THEN n ELSE 0
    /\ idx' = 0
    /\ UNCHANGED <<volume, res, nReports, nCalls>>
    /\ UNCHANGED <<tokenVars, clientVars>>

\* one iteration of "for volume in allvolumes": resizeVolume(cvs, volume, ...);
\* an exception leaves the loop and the run
resizeLoop ==
    /\ pc = "loop"
    /\ idx < nVolumes
    /\ \E v \in Volumes :
       \E io \in IOFor(v, policy.duration, policy.margin, policy.outputJSON,
                       policy.dry_mode) :
         LET r == resizeVolume(v, policy.duration, policy.margin,
                               policy.outputJSON, policy.dry_mode, io)
         IN  /\ volume' = v
             /\ res' = r
             /\ nReports' = nReports + reportLines(r)
             /\ pc' = IF r.raised = None THEN "loop" ELSE "crashed"
    /\ idx' = idx + 1
    /\ nCalls' = nCalls + 1
    /\ UNCHANGED <<handler, policy, nVolumes>>
    /\ UNCHANGED <<tokenVars, clientVars>>

\* the loop is exhausted, resize() returns
resizeReturn ==
    /\ pc = "loop"
    /\ idx = nVolumes
    /\ pc' = "done"
    /\ UNCHANGED <<handler, policy, nVolumes, idx, volume, res, nReports, nCalls>>
    /\ UNCHANGED <<tokenVars, clientVars>>

----------------------------------------------------------------------------
(* Entry points *)

\* CVSCapacityManager_cli: plain-text table
CVSCapacityManager_cli ==
    \E d \in Durations, m \in Margins, dry \in BOOLEAN, n \in 0..MaxVolumes,
       ok \in BOOLEAN :
        resize("cli", d, m, FALSE, dry, n, ok)

\* CVSCapacityManager_pubsub: structured entries (both parameter sources end
\* in the same resize call)
CVSCapacityManager_pubsub ==
    \E d \in Durations, m \in Margins, dry \in BOOLEAN, n \in 0..MaxVolumes,
       ok \in BOOLEAN :
        resize("pubsub", d, m, TRUE, dry, n, ok)

\* CVSCapacityManager_alert_event with an alert payload of an open incident
\* whose volume is found: resizeVolume(cvs, volume, 0, margin, True, dry_mode)
alert_event_volume ==
    /\ pc = "idle"
    /\ \E m \in Margins, dry \in BOOLEAN, v \in Volumes :
       \E io \in IOFor(v, 0, m, TRUE, dry) :
         LET r == resizeVolume(v, 0, m, TRUE, dry, io)
         IN  /\ policy' = Policy(0, m, TRUE, dry)
             /\ volume' = v
             /\ res' = r
             /\ nReports' = reportLines(r)
             /\ pc' = IF r.raised = None THEN "done" ELSE "crashed"
    /\ handler' = "alert"
    /\ nCalls' = 1
    /\ UNCHANGED <<nVolumes, idx>>
    /\ UNCHANGED <<tokenVars, clientVars>>

\* ... without payload ('data' not in event): resize(None, sa, 0, margin, True, True)
alert_event_test ==
    \E m \in Margins, n \in 0..MaxVolumes, ok \in BOOLEAN :
        resize("alert_test", 0, m, TRUE, TRUE, n, ok)

\* ... every return without a resize: environment missing, payload without
\* the labels, incident closed, volume not found
alert_event_noaction ==
    /\ pc = "idle"
    /\ handler' = "alert"
    /\ pc' = "done"
    /\ UNCHANGED <<policy, nVolumes, idx, volume, res, nReports, nCalls>>
    /\ UNCHANGED <<tokenVars, clientVars>>

Init == EngineInit /\ TokenIdle /\ ClientIdle
Next ==
    \/ CVSCapacityManager_cli
    \/ CVSCapacityManager_pubsub
    \/ alert_event_volume
    \/ alert_event_test
    \/ alert_event_noaction
    \/ resizeLoop
    \/ resizeReturn
Spec == Init /\ [][Next]_vars

----------------------------------------------------------------------------
(* Properties of the resize engine, checked under Spec *)

called == nCalls > 0        \* res and volume describe a resizeVolume call

capMessage == "Resizing capped to 100 TiB"

\* C1. Dry run: a resizeVolume call made with dry_mode set, and every call
\* of the batch the alert handler starts without a payload, issues no PUT
\* and leaves the quota alone, whatever the decision is.
C1_DryRunNoWrite ==
    (called /\ (policy.dry_mode \/ handler = "alert_test"))
        => /\ res.puts = <<>>
           /\ res.quotaAfter = volume.quota

\* the second volume of the alert handler's test batch would be enlarged
C1_Witness ==
    /\ handler = "alert_test" /\ nCalls = 2
    /\ res.decision = "ResizeProposed" /\ res.entry # <<>>
    /\ res.entry[1].enlarge /\ res.puts = <<>>

\* C2. Never shrink: a PUT writes a size strictly above the current quota,
\* and without a PUT the quota stays as it is.
C2_NeverShrink ==
    called => /\ \A i \in DOMAIN res.puts : res.puts[i] > volume.quota
              /\ (res.puts = <<>> => res.quotaAfter = volume.quota)

\* C3. Cap: when the computed size is above 100 TiB the cap notice is printed
\* (severity WARNING in structured output) and the size reported and the
\* size written are exactly 100 TiB; no size above 100 TiB is reported or
\* written.
C3_CapInvariant ==
    called =>
      /\ (res.computed # <<>> /\ res.computed[1] > MaxVolumeSize) =>
           /\ \E i \in DOMAIN res.notices :
                /\ res.notices[i].message = capMessage
                /\ policy.outputJSON => res.notices[i].severity = "WARNING"
           /\ \A i \in DOMAIN res.entry : res.entry[i].newSize = MaxVolumeSize
           /\ \A i \in DOMAIN res.puts : res.puts[i] = MaxVolumeSize
      /\ \A i \in DOMAIN res.entry : res.entry[i].newSize <= MaxVolumeSize
      /\ \A i \in DOMAIN res.puts : res.puts[i] <= MaxVolumeSize

\* a volume below the cap is enlarged to exactly 100 TiB
C3_Witness ==
    /\ called /\ res.computed # <<>> /\ res.computed[1] > MaxVolumeSize
    /\ volume.quota < MaxVolumeSize
    /\ res.ret = "True" /\ res.puts = <<MaxVolumeSize>>
    /\ res.entry # <<>> /\ res.entry[1].newSize = MaxVolumeSize

\* C4. Skip rules: a volume that is not available, or that is a secondary in
\* active replication, is skipped: nothing is computed, nothing is written,
\* the call returns False; the availability test comes first.
C4_SkipRules ==
    (called /\ (volume.lifeCycleState # "available"
                  \/ (volume.isDataProtection /\ volume.inReplication)))
        => /\ res.decision = "Skipped"
           /\ res.ret = "False" /\ res.raised = None
           /\ res.computed = <<>> /\ res.entry = <<>> /\ res.puts = <<>>
           /\ Len(res.notices) = 1
           /\ res.notices[1].message =
                IF volume.lifeCycleState # "available"
                THEN "Volume is not available. Skipping ..."
                ELSE "Secondary volume in active replication. Skipping ..."

\* a full secondary in replication, under a policy that would otherwise write
C4_Witness ==
    /\ called /\ volume.lifeCycleState = "available"
    /\ volume.isDataProtection /\ volume.inReplication
    /\ volume.used = 90 * TiB /\ ~policy.dry_mode /\ policy.margin = 20
    /\ res.decision = "Skipped"

\* C7. Dynamic sizing: with used > 0, a defined tier, duration > 0 and
\* 0 <= margin < 100 the computed size is a whole number of GiB and is not
\* below the used bytes.
C7_DynamicBound ==
    (called /\ res.computed # <<>> /\ policy.duration > 0 /\ volume.used > 0
        /\ effectiveTier(volume) \in KnownTiers /\ policy.margin < 100)
        => /\ res.computed[1] % GiB = 0
           /\ res.computed[1] >= volume.used

\* the smallest whole number of GiB not below a / b
ceilGiB(a, b) == ((a + b * GiB - 1) \div (b * GiB)) * GiB

\* C8. Static margin: with duration = 0 and 0 <= margin < 100 the computed
\* size is ceil_GiB(used * 100 / (100 - margin)).
C8_StaticMargin ==
    (called /\ res.computed # <<>> /\ policy.duration = 0 /\ policy.margin < 100)
        => res.computed[1] = ceilGiB(volume.used * 100, 100 - policy.margin)

----------------------------------------------------------------------------
(* BearerAuth.ImpersonationCreds                                           *)
(* The clock counts whole seconds, so int(expiry.timestamp()), the exp     *)
(* claim of the signed token, is the expiry itself.                        *)

token_life_time == 5 * 60       \* seconds
RefreshSkew == 10               \* timedelta(seconds=10) of get_token

\* the signed JWT the service returns for the claims of _new_token
signedJwt(iat, exp) == [iat |-> iat, exp |-> exp]

\* the test of get_token: "Token to expire within 10s. Let's refresh"
needsRefresh(t, exp) == t + RefreshSkew > exp

\* _new_token: self.expiry is set first, then the signing call is made;
\* self.token is assigned only when sign_jwt returns.  ok: sign_jwt succeeds.
new_token(ok) ==
    /\ expiry' = now + token_life_time
    /\ token' = IF ok THEN <<signedJwt(now, now + token_life_time)>> ELSE token

\* ImpersonationCreds.__init__: the first token; if signing fails the
\* constructor raises and no provider exists
ImpersonationCreds_init ==
    /\ tpc = "unbuilt"
    /\ \E ok \in BOOLEAN :
         /\ new_token(ok)
         /\ tpc' = IF ok THEN "ready" ELSE "failed"
    /\ UNCHANGED <<now, call>>
    /\ UNCHANGED <<engineVars, clientVars>>

\* get_token that refreshes
get_token_refresh ==
    /\ tpc = "ready"
    /\ needsRefresh(now, expiry)
    /\ \E ok \in BOOLEAN :
         /\ new_token(ok)
         /\ call' = [at |-> now, signs |-> 1,
                     outcome |-> IF ok THEN "returned" ELSE "raised",
                     returned |-> IF ok THEN token' ELSE <<>>,
                     expiryBefore |-> expiry]
    /\ UNCHANGED <<tpc, now>>
    /\ UNCHANGED <<engineVars, clientVars>>

\* get_token that returns the cached token
get_token_cached ==
    /\ tpc = "ready"
    /\ ~needsRefresh(now, expiry)
    /\ call' = [at |-> now, signs |-> 0, outcome |-> "returned",
                returned |-> token, expiryBefore |-> expiry]
    /\ UNCHANGED <<tpc, now, expiry, token>>
    /\ UNCHANGED <<engineVars, clientVars>>

\* A second passes.  The clock starts when the provider is built; call
\* describes a get_token call of the current second only.
Tick ==
    /\ tpc = "ready"
    /\ now < MaxTime
    /\ now' = now + 1
    /\ call' = NoCall
    /\ UNCHANGED <<tpc, expiry, token>>
    /\ UNCHANGED <<engineVars, clientVars>>

TokenNext ==
    \/ ImpersonationCreds_init
    \/ get_token_refresh
    \/ get_token_cached
    \/ Tick

SpecToken == Init /\ [][TokenNext]_vars

\* C5. Token validity: a token that get_token returns has at least the
\* 10 seconds of skew left before the expiry it was signed with.
C5_TokenValid ==
    call.outcome = "returned"
        => /\ call.returned # <<>>
           /\ call.returned[1].exp >= call.at + RefreshSkew

\* C6. Refresh trigger: a get_token call with now + 10s >= expiry makes
\* exactly one signing call and what it returns is the new token, expiring at
\* now + 5 minutes; a call with now + 10s < expiry makes none and returns the
\* cached token.
C6_RefreshTrigger ==
    call.outcome # None =>
        IF call.at + RefreshSkew >= call.expiryBefore
        THEN /\ call.signs = 1
             /\ call.outcome = "returned" =>
                    call.returned = <<signedJwt(call.at, call.at + token_life_time)>>
        ELSE /\ call.signs = 0
             /\ call.outcome = "returned"

----------------------------------------------------------------------------
(* BearerAuth.__init__ : classification of service_account_identifier      *)
(*                                                                         *)
(* The identifier is described by what the tests of the code look at:      *)
(*   principal    re.match(user_managed_sa_regex, s)                       *)
(*   ascii        bytes(s, 'ascii') succeeds                               *)
(*   padded       base64.b64decode accepts it (length and padding)         *)
(*   alphabet     it has base64 alphabet characters only, in canonical     *)
(*                form (b64decode drops every other character)             *)
(*   decoded      what json.loads makes of the decoded bytes               *)
(*   isFile       Path(s).is_file()                                        *)
(*   fileContent  what json.loads makes of the file                        *)
(* Contents: "json_key" a service account key, "json_other" JSON that is   *)
(* not a key (no project_id), "not_json".                                  *)

Contents == {"json_key", "json_other", "not_json"}

\* A principal has "@" and "." and is ASCII; a path of base64 characters
\* only, such as /etc/cvs/key, may be well-formed base64.
Identifiers ==
    {i \in [principal : BOOLEAN, ascii : BOOLEAN, alphabet : BOOLEAN,
            padded : BOOLEAN, decoded : Contents, isFile : BOOLEAN,
            fileContent : Contents] :
        /\ i.principal => (i.ascii /\ ~i.alphabet)
        /\ ~i.ascii => ~i.alphabet}

\* b64encode(b64decode(sb_bytes)) == sb_bytes, False on any exception
isBase64(sb) ==
    IF ~sb.ascii THEN FALSE         \* bytes(sb, 'ascii') raises
    ELSE IF ~sb.padded THEN FALSE   \* b64decode raises binascii.Error
    ELSE sb.alphabet                \* the re-encoding is the input

\* json_key = json.loads(...); self.projectID = json_key['project_id'];
\* self.credentials = self.JSONKeyCreds(json_key)
fromJsonKey(content, source) ==
    CASE content = "json_key" ->
            [credentials |-> "JSONKeyCreds", raised |-> None,
             projectID |-> "project_id", source |-> source]
      [] content = "json_other" ->
            [credentials |-> None, raised |-> "KeyError",
             projectID |-> None, source |-> source]
      [] OTHER ->   \* json.JSONDecodeError / UnicodeDecodeError, both ValueError
            [credentials |-> None, raised |-> "ValueError",
             projectID |-> None, source |-> source]

BearerAuth(service_account_identifier) ==
    IF service_account_identifier.principal
    THEN [credentials |-> "ImpersonationCreds", raised |-> None,
          projectID |-> "domain", source |-> "principal"]
    ELSE IF isBase64(service_account_identifier)
    THEN fromJsonKey(service_account_identifier.decoded, "base64")
    ELSE IF service_account_identifier.isFile
    THEN fromJsonKey(service_account_identifier.fileContent, "file")
    ELSE [credentials |-> None, raised |-> "ValueError",
          projectID |-> None, source |-> None]

\* GCPCVS.__init__: self.token = BearerAuth(service_account)
BearerAuth_init ==
    /\ \E i \in Identifiers :
         /\ ident' = i
         /\ auth' = BearerAuth(i)
    /\ UNCHANGED tr
    /\ UNCHANGED <<engineVars, tokenVars>>

----------------------------------------------------------------------------
(* Tier label translation as a client operation *)

Labels == {"basic", "standard", "premium", "extreme", "standard-sw", "flex"}
APITiers == {"basic", "standard", "extreme", "standard-sw"}
UITiers == {"standard", "premium", "extreme", "standard-sw"}

\* translate an API label to the UI vocabulary, and the result back
API2UI ==
    /\ \E l \in Labels :
         LET r == translateServiceLevelAPI2UI(l)
         IN  tr' = [dir |-> "API2UI", label |-> l, result |-> r,
                    back |-> translateServiceLevelUI2API(r)]
    /\ UNCHANGED <<auth, ident>>
    /\ UNCHANGED <<engineVars, tokenVars>>

\* translate a UI label to the API vocabulary, and the result back
UI2API ==
    /\ \E l \in Labels :
         LET r == translateServiceLevelUI2API(l)
         IN  tr' = [dir |-> "UI2API", label |-> l, result |-> r,
                    back |-> translateServiceLevelAPI2UI(r)]
    /\ UNCHANGED <<auth, ident>>
    /\ UNCHANGED <<engineVars, tokenVars>>

ClientNext ==
    \/ BearerAuth_init
    \/ API2UI
    \/ UI2API

SpecClient == Init /\ [][ClientNext]_vars

built == ident # NoIdent

\* C9. Credential classification: principal, then base64 JSON key, then
\* existing key file; a principal gives the impersonation provider with the
\* project taken from the domain; base64 of a JSON key gives the direct-key
\* provider; any other identifier that is the path of a key file gives the
\* direct-key provider built from the file, also when the path is itself
\* well-formed base64; an identifier that is none of the three raises
\* ValueError and no provider is built.
C9_Classification ==
    built =>
      LET b64json == isBase64(ident) /\ ident.decoded # "not_json"
      IN  /\ ident.principal =>
                /\ auth.credentials = "ImpersonationCreds"
                /\ auth.projectID = "domain"
          /\ (~ident.principal /\ isBase64(ident) /\ ident.decoded = "json_key") =>
                /\ auth.credentials = "JSONKeyCreds"
                /\ auth.source = "base64"
          /\ (~ident.principal /\ ~b64json /\ ident.isFile
                /\ ident.fileContent = "json_key") =>
                /\ auth.credentials = "JSONKeyCreds"
                /\ auth.source = "file"
          /\ (~ident.principal /\ ~b64json /\ ~ident.isFile) =>
                /\ auth.credentials = None
                /\ auth.raised = "ValueError"

\* C10. Tier translation round trip: API -> UI -> API and UI -> API -> UI are
\* the identity on the four tiers of each vocabulary, the mapping is
\* basic<->standard, standard<->premium, extreme<->extreme,
\* standard-sw<->standard-sw, and a label outside the vocabulary translates
\* to None.
C10_RoundTrip ==
    /\ tr.dir = "API2UI" =>
         IF tr.label \in APITiers
         THEN /\ tr.back = tr.label
              /\ tr.result = (CASE tr.label = "basic" -> "standard"
                                [] tr.label = "standard" -> "premium"
                                [] OTHER -> tr.label)
         ELSE tr.result = None
    /\ tr.dir = "UI2API" =>
         IF tr.label \in UITiers
         THEN /\ tr.back = tr.label
              /\ tr.result = (CASE tr.label = "standard" -> "basic"
                                [] tr.label = "premium" -> "standard"
                                [] OTHER -> tr.label)
         ELSE tr.result = None

\* "standard" of the UI is "basic" of the API, and back
C10_Witness ==
    /\ tr.dir = "UI2API" /\ tr.label = "standard"
    /\ tr.result = "basic" /\ tr.back = "standard"

----------------------------------------------------------------------------
(* Error handling of the resize engine, checked under Spec *)

batch == handler \in {"cli", "pubsub", "alert_test"}

\* the volume passes both filters, so the sizing step runs for it
eligible(v) == isAvailable(v) /\ ~isActiveSecondary(v)

\* C11. Failure isolation: a failure while one volume of the batch is
\* processed does not end the batch; the run stops only when every volume of
\* the list has been taken.
C11_FailureIsolation ==
    (batch /\ pc = "crashed" /\ nCalls > 0) => idx = nVolumes

\* the policy makes the denominator of the dynamic formula positive, or is
\* the static margin of 100 percent
degenerate(v, p) ==
    \/ p.duration > 0
         /\ DenNum(speedOf(effectiveTier(v)), p.duration, p.margin) >= 0
    \/ p.duration = 0 /\ p.margin = 100

\* C12. Degenerate policies: for a volume with used bytes that reaches the
\* sizing step under a degenerate policy the call ends in an error; no
\* negative or zero size is produced, and the volume is not reported as
\* unchanged or enlarged.
C12_DegenerateIsError ==
    (called /\ eligible(volume) /\ volume.used > 0 /\ degenerate(volume, policy))
        => /\ res.raised # None
           /\ res.computed = <<>>
           /\ res.entry = <<>>

\* C13. Unknown tier: a hardware volume with a service level outside the qos
\* table is sized with the speed of "extreme" and the call completes with a
\* decision and a report entry, in the table output and in the structured
\* output.
C13_UnknownTierCompletes ==
    (called /\ eligible(volume) /\ volume.storageClass = "hardware"
        /\ volume.serviceLevel \notin KnownTiers /\ policy.margin < 100)
        => /\ res.computed =
                <<computedSize([volume EXCEPT !.serviceLevel = "extreme"],
                               policy.duration, policy.margin)>>
           /\ res.decision \in {"Unchanged", "ResizeProposed"}
           /\ res.raised # "TypeError"
           /\ Len(res.entry) = 1

\* C14. One decision per volume: every resizeVolume call under a policy with
\* margin below 100 reaches one of Skipped, Unchanged, ResizeProposed and
\* prints exactly one report entry; when a batch has ended, as many entries
\* have been printed as volumes were listed.
C14_OneReportPerVolume ==
    /\ (called /\ policy.margin < 100) =>
          /\ res.decision \in {"Skipped", "Unchanged", "ResizeProposed"}
          /\ reportLines(res) = 1
    /\ (batch /\ pc \in {"done", "crashed"} /\ policy.margin < 100) =>
          nReports = nVolumes

----------------------------------------------------------------------------
(* Error handling of the token provider, checked under SpecToken *)

\* C15. Failed refresh: when the signing call of a get_token call fails, the
\* cached expiry is what it was before the call (so the next get_token call
\* refreshes again) and so is the cached token.
C15_FailedRefreshKeepsCache ==
    call.outcome = "raised"
        => /\ expiry = call.expiryBefore
           /\ needsRefresh(now, expiry)

====
